---- MODULE Spec2Model ----
(***************************************************************************)
(* MinSplit API: the rule-based debate generator (extract_tags,            *)
(* key_phrases, sentiment_hint, generate_debate) and the conversation      *)
(* endpoints (create, list, get, delete) of src/main.py.                   *)
(*                                                                         *)
(* A Python str is a sequence of one-character strings, so that lower(),   *)
(* strip(), replace(), split() and the substring test `kw in s` are        *)
(* computed character by character.  Fixed template texts are TLA+         *)
(* strings; a message content is the record [head, arg, tail] standing for *)
(* the concatenation head + arg + tail, where arg is the interpolated      *)
(* piece of the situation.  Non-ASCII punctuation of the templates is      *)
(* written as "-".                                                         *)
(***************************************************************************)
EXTENDS Integers, Sequences, FiniteSets, TLC

VARIABLES
    \* ---- generator harness: one call of the pure functions on one input
    situation,      \* the str passed to the functions
    gpc,            \* which function has been applied last
    tags_out,       \* result of extract_tags(situation)
    phrases_out,    \* result of key_phrases(situation)
    debate_out,     \* result of generate_debate(situation)
    \* ---- HTTP service
    store,          \* db["conversation"]: ObjectId -> document
    next_oid,       \* the next ObjectId the store hands out
    clock,          \* datetime.utcnow()
    response,       \* the last request (op, req) and its answer (status, body)
    created,        \* history: ObjectId -> body the POST answered with
    deleted         \* history: ObjectIds a DELETE answered "deleted" for

gen_vars == <<situation, gpc, tags_out, phrases_out, debate_out>>
api_vars == <<store, next_oid, clock, response, created, deleted>>
vars == <<situation, gpc, tags_out, phrases_out, debate_out,
          store, next_oid, clock, response, created, deleted>>

----------------------------------------------------------------------------
(* str primitives *)

Whitespace == {" ", "\t", "\n", "\r"}

UpperAlpha ==
    <<"A","B","C","D","E","F","G","H","I","J","K","L","M",
      "N","O","P","Q","R","S","T","U","V","W","X","Y","Z">>

LowerAlpha ==
    <<"a","b","c","d","e","f","g","h","i","j","k","l","m",
      "n","o","p","q","r","s","t","u","v","w","x","y","z">>

lower_char(c) ==
    IF \E i \in 1..Len(UpperAlpha) : UpperAlpha[i] = c
    THEN LowerAlpha[CHOOSE i \in 1..Len(UpperAlpha) : UpperAlpha[i] = c]
    ELSE c

\* str.lower()
lower(s) == [i \in 1..Len(s) |-> lower_char(s[i])]

\* str.strip(): drop leading and trailing whitespace
strip(s) ==
    LET idx == {i \in 1..Len(s) : s[i] \notin Whitespace}
    IN  IF idx = {} THEN <<>>
        ELSE LET first == CHOOSE i \in idx : \A j \in idx : i <= j
                 last  == CHOOSE i \in idx : \A j \in idx : j <= i
             IN  SubSeq(s, first, last)

\* str.replace(old, new) for one-character old and new
replace(s, old, new) == [i \in 1..Len(s) |-> IF s[i] = old THEN new ELSE s[i]]

\* str.split(sep) for a one-character sep: always at least one chunk
RECURSIVE split(_, _)
split(s, sep) ==
    LET idx == {i \in 1..Len(s) : s[i] = sep}
    IN  IF idx = {} THEN <<s>>
        ELSE LET k == CHOOSE i \in idx : \A j \in idx : i <= j
             IN  <<SubSeq(s, 1, k - 1)>> \o split(SubSeq(s, k + 1, Len(s)), sep)

\* kw in s
contains(s, kw) ==
    \E i \in 0..(Len(s) - Len(kw)) : SubSeq(s, i + 1, i + Len(kw)) = kw

\* any(kw in s for kw in kws), kws a list
any_in(kws, s) == \E i \in 1..Len(kws) : contains(s, kws[i])

----------------------------------------------------------------------------
(* extract_tags *)

keywords ==
    << [tag |-> "career", kws |->
          << <<"j","o","b">>,
             <<"c","a","r","e","e","r">>,
             <<"o","f","f","e","r">>,
             <<"p","r","o","m","o","t","i","o","n">>,
             <<"s","w","i","t","c","h">>,
             <<"r","o","l","e">> >>],
       [tag |-> "finance", kws |->
          << <<"s","a","l","a","r","y">>,
             <<"m","o","n","e","y">>,
             <<"b","u","d","g","e","t">>,
             <<"i","n","v","e","s","t","m","e","n","t">>,
             <<"l","o","a","n">>,
             <<"d","e","b","t">>,
             <<"b","u","y">>,
             <<"r","e","n","t">> >>],
       [tag |-> "relationships", kws |->
          << <<"r","e","l","a","t","i","o","n","s","h","i","p">>,
             <<"p","a","r","t","n","e","r">>,
             <<"f","r","i","e","n","d">>,
             <<"f","a","m","i","l","y">>,
             <<"m","a","r","r","i","a","g","e">>,
             <<"d","a","t","i","n","g">> >>],
       [tag |-> "health", kws |->
          << <<"h","e","a","l","t","h">>,
             <<"e","x","e","r","c","i","s","e">>,
             <<"d","i","e","t">>,
             <<"s","l","e","e","p">>,
             <<"s","t","r","e","s","s">>,
             <<"b","u","r","n","o","u","t">> >>],
       [tag |-> "education", kws |->
          << <<"c","o","l","l","e","g","e">>,
             <<"c","o","u","r","s","e">>,
             <<"s","t","u","d","y">>,
             <<"s","t","u","d","y","i","n","g">>,
             <<"d","e","g","r","e","e">>,
             <<"l","e","a","r","n">>,
             <<"b","o","o","t","c","a","m","p">>,
             <<"e","x","a","m">>,
             <<"t","e","s","t">>,
             <<"m","a","t","h">> >>],
       [tag |-> "relocation", kws |->
          << <<"m","o","v","e">>,
             <<"r","e","l","o","c","a","t","e">>,
             <<"c","i","t","y">>,
             <<"c","o","u","n","t","r","y">> >>],
       [tag |-> "purchase", kws |->
          << <<"b","u","y">>,
             <<"p","u","r","c","h","a","s","e">>,
             <<"u","p","g","r","a","d","e">>,
             <<"p","h","o","n","e">>,
             <<"c","a","r">>,
             <<"h","o","u","s","e">> >>],
       [tag |-> "hobby", kws |->
          << <<"c","r","i","c","k","e","t">>,
             <<"f","o","o","t","b","a","l","l">>,
             <<"s","o","c","c","e","r">>,
             <<"g","a","m","e">>,
             <<"g","a","m","i","n","g">>,
             <<"s","p","o","r","t">>,
             <<"s","p","o","r","t","s">>,
             <<"m","u","s","i","c">> >>] >>

RECURSIVE extract_tags_loop(_, _, _)
extract_tags_loop(s, i, tags) ==
    IF i > Len(keywords) THEN tags
    ELSE extract_tags_loop(s, i + 1,
            IF any_in(keywords[i].kws, s)
            THEN Append(tags, keywords[i].tag)
            ELSE tags)

\* mutant: the fallback tag is appended whether or not a topic matched
extract_tags_always_general(sit) ==
    Append(extract_tags_loop(lower(sit), 1, <<>>), "general")

extract_tags(sit) ==
    LET s    == lower(sit)
        tags == extract_tags_loop(s, 1, <<>>)
    IN  IF tags = <<>> THEN Append(tags, "general") ELSE tags

----------------------------------------------------------------------------
(* key_phrases *)

MinPhraseLen == 4
MaxPhraseLen == 140
MaxPhrases == 4

\* mutant: the upper length bound is exclusive
RECURSIVE key_phrases_loop_strict(_, _, _)
key_phrases_loop_strict(chunks, i, parts) ==
    IF i > Len(chunks) THEN parts
    ELSE LET c == strip(chunks[i])
         IN  key_phrases_loop_strict(chunks, i + 1,
                IF MinPhraseLen <= Len(c) /\ Len(c) < MaxPhraseLen
                THEN Append(parts, c)
                ELSE parts)

RECURSIVE key_phrases_loop(_, _, _)
key_phrases_loop(chunks, i, parts) ==
    IF i > Len(chunks) THEN parts
    ELSE LET c == strip(chunks[i])
         IN  key_phrases_loop(chunks, i + 1,
                IF MinPhraseLen <= Len(c) /\ Len(c) <= MaxPhraseLen
                THEN Append(parts, c)
                ELSE parts)

key_phrases(sit) ==
    LET s      == strip(sit)
        chunks == split(replace(replace(s, "?", "."), "!", "."), ".")
        parts0 == key_phrases_loop(chunks, 1, <<>>)
        parts  == IF parts0 = <<>> /\ s # <<>> THEN <<s>> ELSE parts0
    IN  SubSeq(parts, 1, IF Len(parts) < MaxPhrases THEN Len(parts) ELSE MaxPhrases)

----------------------------------------------------------------------------
(* sentiment_hint *)

positive_words ==
    { <<"e","x","c","i","t","e","d">>,
      <<"h","a","p","p","y">>,
      <<"l","o","v","e">>,
      <<"g","r","e","a","t">>,
      <<"a","m","a","z","i","n","g">>,
      <<"d","r","e","a","m">>,
      <<"l","i","k","e">> }

negative_words ==
    { <<"s","c","a","r","e","d">>,
      <<"a","n","x","i","o","u","s">>,
      <<"w","o","r","r","i","e","d">>,
      <<"s","t","r","e","s","s">>,
      <<"b","u","r","n","o","u","t">>,
      <<"b","a","d">>,
      <<"r","i","s","k","y">>,
      <<"d","o","n","'","t"," ","f","e","e","l"," ","l","i","k","e">>,
      <<"b","o","r","e","d">>,
      <<"t","i","r","e","d">> }

sentiment_hint(sit) ==
    LET s        == lower(sit)
        positive == \E w \in positive_words : contains(s, w)
        negative == \E w \in negative_words : contains(s, w)
    IN  IF positive /\ ~negative THEN "leans positive"
        ELSE IF negative /\ ~positive THEN "leans cautious"
        ELSE "mixed"

----------------------------------------------------------------------------
(* generate_debate *)

exam_words ==
    { <<"e","x","a","m">>, <<"t","e","s","t">>, <<"m","a","t","h">> }

cricket_word == <<"c","r","i","c","k","e","t">>

\* t in tags, tags a list
in_list(t, tags) == \E i \in 1..Len(tags) : tags[i] = t

\* a fixed text, and an f-string with one interpolated str
Text(t) == [head |-> t, arg |-> <<>>, tail |-> ""]
Fmt(h, p, t) == [head |-> h, arg |-> p, tail |-> t]

\* mutant: the exam words are looked up in s, not in s.lower()
is_exam_case_sensitive(s, tags) ==
    /\ in_list("education", tags)
    /\ \E x \in exam_words : contains(s, x)

is_exam(s, tags) ==
    /\ in_list("education", tags)
    /\ \E x \in exam_words : contains(lower(s), x)

likes_cricket(s) == contains(lower(s), cricket_word)

ExamEmoOpen == Text("You're torn, and that's human: the exam feels heavy and cricket feels alive. Let's protect your future self without killing your present joy.")
ExamLogicOpen == Text("There's one night left. We need a plan that maximizes marginal score gain per minute and still respects recovery.")
GenericLogicOpen == Text("Let's turn this into a clear decision model: objectives, constraints, options, and reversible next actions.")

emo_open(s, tags) ==
    IF is_exam(s, tags) THEN ExamEmoOpen
    ELSE Text("I can feel how this " \o sentiment_hint(s)
              \o " decision sits with you. Let's honor what your day-to-day will feel like, not just the headline outcome.")

logic_open(s, tags) ==
    IF is_exam(s, tags) THEN ExamLogicOpen ELSE GenericLogicOpen

ExamEmoFixed ==
    << Text("Name the feeling right now: resistance, anxiety, or boredom? Naming reduces its grip. Give it compassion, not shame."),
       Text("Imagine tomorrow morning you: calm, proud, and not panicked. What minimum tonight gives you that feeling?") >>
ExamLogFixed ==
    << Text("Identify high-yield topics for a math exam: formulas, typical problem types, and error patterns. These dominate last-day ROI."),
       Text("Do a 90-minute focus block: 3 x 25-minute Pomodoro on weak areas + 5-minute reviews. Then a 15-minute quick quiz to verify retention.") >>
CricketEmo == Text("Cricket energizes you. Use it as a reward, not an escape: a short session after the focus block keeps motivation clean.")
CricketLog == Text("If-Then plan: If you finish the 90-minute block and one quiz, then play 30 minutes of cricket. Put gear out of sight until then.")

ExamEmoPhrase(p) == Fmt("When you think about '", p, "', what value matters most-competence, joy, or balance? Choose actions that respect that value.")
ExamLogPhrase(p) == Fmt("For '", p, "', write 3 must-know items. Test yourself once. If recall < 80%, repeat once, else move on.")
GenericEmoPhrase(p) == Fmt("When you picture '", p, "', what emotion shows up first-ease, excitement, or tension? Follow the one that sustains your energy.")
GenericLogPhrase(p) == Fmt("For '", p, "', list two options. Score each 1-5 on impact, effort, risk, and reversibility. Prefer the higher expected value with low irreversible risk.")
GenericEmoClosing == Text("Protect sleep, relationships, and identity-these are compounding assets.")
GenericLogClosing == Text("Design a 7-14 day reversible test to gather evidence before a full commit.")

ExamEmoSelf == Text("I might be overprotecting comfort. One short discomfort now can protect tomorrow's peace.")
ExamLogSelf == Text("I might be ignoring motivation. The plan must be doable-short, clear wins beat ideal schedules.")
GenericEmoSelf == Text("I might be romanticizing the ideal day. Let's ground this by noting one concrete discomfort you're willing to accept.")
GenericLogSelf == Text("I might be over-optimizing metrics. Let's not ignore motivation and meaning-the plan must be energizing to be sustainable.")

ExamAction == "Tonight: 90 minutes focused practice on key math topics (formulas, typical problems), then 30 minutes of cricket as a reward. Hydrate, prep bag, sleep >= 7 hours."
DefaultAction == "Run a small, time-boxed experiment and measure real signals."
FinanceAction == "Create a 30-60-90 budget, cap downside, and trial the change with strict guardrails."
CareerAction == "Define three success metrics (learning, compensation, impact) and do a 2-week shadow or pilot."
RelationshipsAction == "Schedule a candid conversation, co-create boundaries, and review in 2 weeks."
HealthAction == "Adopt a minimal routine (sleep, meals, 20-min walk) and review mood and energy after 10 days."
DecisionPrefix == "Balanced Decision: choose the path that preserves mental health and values while maximizing reversible upside. "

\* the emotional and the logical points of the exam branch
exam_points(s, phrases) ==
    LET cricket_emo == IF likes_cricket(s) THEN <<CricketEmo>> ELSE <<>>
        cricket_log == IF likes_cricket(s) THEN <<CricketLog>> ELSE <<>>
    IN  [emo |-> ExamEmoFixed \o cricket_emo
                    \o [i \in 1..Len(phrases) |-> ExamEmoPhrase(phrases[i])],
         log |-> ExamLogFixed \o cricket_log
                    \o [i \in 1..Len(phrases) |-> ExamLogPhrase(phrases[i])]]

\* the emotional and the logical points of the generic branch
generic_points(phrases) ==
    [emo |-> Append([i \in 1..Len(phrases) |-> GenericEmoPhrase(phrases[i])],
                    GenericEmoClosing),
     log |-> Append([i \in 1..Len(phrases) |-> GenericLogPhrase(phrases[i])],
                    GenericLogClosing)]

\* mutant: an if/elif chain, the first matching check wins
generic_action_first_match(tags) ==
    IF in_list("finance", tags) THEN FinanceAction
    ELSE IF in_list("career", tags) THEN CareerAction
    ELSE IF in_list("relationships", tags) THEN RelationshipsAction
    ELSE IF in_list("health", tags) THEN HealthAction
    ELSE DefaultAction

\* the action of the generic branch: four checks, each overwriting the last
generic_action(tags) ==
    LET a0 == DefaultAction
        a1 == IF in_list("finance", tags) THEN FinanceAction ELSE a0
        a2 == IF in_list("career", tags) THEN CareerAction ELSE a1
        a3 == IF in_list("relationships", tags) THEN RelationshipsAction ELSE a2
        a4 == IF in_list("health", tags) THEN HealthAction ELSE a3
    IN  a4

\* mutant: the turn counter is not advanced
emit_same_turn(acc, role, content) ==
    [messages |-> Append(acc.messages,
                         [role |-> role, content |-> content, turn |-> acc.turn]),
     turn     |-> acc.turn]

\* acc = [messages, turn]: append one message and advance turn
emit(acc, role, content) ==
    [messages |-> Append(acc.messages,
                         [role |-> role, content |-> content, turn |-> acc.turn]),
     turn     |-> acc.turn + 1]

\* mutant: the loop stops one pair early
RECURSIVE emit_points_dropping_last(_, _, _, _)
emit_points_dropping_last(acc, emo_points, log_points, i) ==
    IF i >= Len(emo_points) \/ i >= Len(log_points) THEN acc
    ELSE emit_points_dropping_last(
             emit(emit(acc, "emotional", emo_points[i]), "logical", log_points[i]),
             emo_points, log_points, i + 1)

\* for ep, lp in zip(emo_points, log_points): stops at the shorter list
RECURSIVE emit_points(_, _, _, _)
emit_points(acc, emo_points, log_points, i) ==
    IF i > Len(emo_points) \/ i > Len(log_points) THEN acc
    ELSE emit_points(emit(emit(acc, "emotional", emo_points[i]),
                          "logical", log_points[i]),
                     emo_points, log_points, i + 1)

generate_debate(sit) ==
    LET s       == strip(sit)
        tags    == extract_tags(s)
        phrases == key_phrases(s)
        exam    == is_exam(s, tags)
        points  == IF exam THEN exam_points(s, phrases) ELSE generic_points(phrases)
        emo_self == IF exam THEN ExamEmoSelf ELSE GenericEmoSelf
        log_self == IF exam THEN ExamLogSelf ELSE GenericLogSelf
        action  == IF exam THEN ExamAction ELSE generic_action(tags)
        m0 == [messages |-> <<[role |-> "user", content |-> Fmt("", s, ""), turn |-> 0]>>,
               turn |-> 1]
        m1 == emit(emit(m0, "emotional", emo_open(s, tags)),
                   "logical", logic_open(s, tags))
        m2 == emit_points(m1, points.emo, points.log, 1)
        m3 == emit(emit(m2, "emotional", emo_self), "logical", log_self)
        final_decision == Text(DecisionPrefix \o action)
        m4 == emit(m3, "summary", final_decision)
    IN  [messages |-> m4.messages, final_decision |-> final_decision, tags |-> tags]

----------------------------------------------------------------------------
(* Inputs of the generator harness: situations are concatenations of        *)
(* fragments, so that keywords, separators, whitespace, upper case and      *)
(* over-long chunks all occur.                                              *)

MaxWords == 3
MaxChunks == 5
LongLen == 135

RECURSIVE concat(_)
concat(ws) == IF ws = <<>> THEN <<>> ELSE Head(ws) \o concat(Tail(ws))

Sentences(V, n) == { concat(ws) : ws \in UNION { [1..k -> V] : k \in 0..n } }

TagWords ==
    { <<"j","o","b">>, <<"R","e","n","t">>,
      <<"b","a","d"," ","f","r","i","e","n","d">>,
      <<"s","l","e","e","p",".">>, <<"E","x","a","m">>, <<"m","a","t","h">>,
      <<"c","r","i","c","k","e","t">>, <<"c","a","r">> }

LongChunk == [i \in 1..LongLen |-> "x"]

PhraseWords == { <<"\t","a","b","c","d","!">>, <<" ","e","?">>, LongChunk }

Situations == Sentences(TagWords, MaxWords) \cup Sentences(PhraseWords, MaxChunks)

NoDebate == [messages |-> <<>>, final_decision |-> Text(""), tags |-> <<>>]

CallExtractTags ==
    /\ gpc = "start"
    /\ tags_out' = extract_tags(situation)
    /\ gpc' = "tags"
    /\ UNCHANGED <<situation, phrases_out, debate_out>>
    /\ UNCHANGED api_vars

CallKeyPhrases ==
    /\ gpc = "tags"
    /\ phrases_out' = key_phrases(situation)
    /\ gpc' = "phrases"
    /\ UNCHANGED <<situation, tags_out, debate_out>>
    /\ UNCHANGED api_vars

CallGenerateDebate ==
    /\ gpc = "phrases"
    /\ debate_out' = generate_debate(situation)
    /\ gpc' = "done"
    /\ UNCHANGED <<situation, tags_out, phrases_out>>
    /\ UNCHANGED api_vars

GenNext == CallExtractTags \/ CallKeyPhrases \/ CallGenerateDebate

----------------------------------------------------------------------------
(* The conversation endpoints.  An ObjectId is a natural number; a          *)
(* conversation_id path parameter is [wf, hex]: wf says whether ObjectId()  *)
(* accepts the string, hex is the ObjectId it denotes.                      *)

MaxConvs == 2
DefaultLimit == 50

str_oid(oid) == [wf |-> TRUE, hex |-> oid]
MalformedId == [wf |-> FALSE, hex |-> 0]
ConversationIds == { str_oid(n) : n \in 1..(MaxConvs + 1) } \cup {MalformedId}

isoformat(t) == [iso |-> t]

ApiSituations ==
    { <<>>,
      <<" ", "\n">>,
      <<"b","u","y"," ","a"," ","c","a","r","?">>,
      <<" ","S","l","e","e","p",".","J","o","b","!"," ">>,
      <<"e","x","a","m"," ","c","r","i","c","k","e","t">> }

NoBody == [none |-> TRUE]
NoResponse == [op |-> "none", req |-> NoBody, status |-> 0, body |-> NoBody]

\* database.create_document: insert a copy of data under a fresh _id
create_document(data) ==
    [oid   |-> next_oid,
     store |-> [o \in DOMAIN store \cup {next_oid} |->
                  IF o = next_oid
                  THEN [f \in DOMAIN data \cup {"_id"} |->
                          IF f = "_id" THEN next_oid ELSE data[f]]
                  ELSE store[o]]]

\* the document create_debate builds from the request
conversation_of(sit, d) ==
    [situation |-> strip(sit), messages |-> d.messages,
     final_decision |-> d.final_decision, tags |-> d.tags,
     created_at |-> clock, updated_at |-> clock]

\* the body create_debate answers with
debate_body(conv_id, conv) ==
    [conversation_id |-> conv_id, situation |-> conv.situation,
     messages |-> conv.messages, final_decision |-> conv.final_decision,
     tags |-> conv.tags]

\* create_debate from the insertion on: ins is create_document's result
respond_created(sit, conv, ins) ==
    /\ store' = ins.store
    /\ next_oid' = next_oid + 1
    /\ response' = [op |-> "create", req |-> sit, status |-> 200,
                    body |-> debate_body(str_oid(ins.oid), conv)]
    /\ created' = [o \in DOMAIN created \cup {ins.oid} |->
                     IF o = ins.oid THEN response'.body ELSE created[o]]

store_conversation(sit, conv) == respond_created(sit, conv, create_document(conv))

\* mutant: only the empty string is refused
is_blank_unstripped(sit) == sit = <<>>

\* not req.situation or not req.situation.strip()
is_blank(sit) == sit = <<>> \/ strip(sit) = <<>>

create_debate(sit) ==
    IF is_blank(sit)
    THEN /\ response' = [op |-> "create", req |-> sit, status |-> 400,
                         body |-> [detail |-> "Situation is required"]]
         /\ UNCHANGED <<store, next_oid, clock, created, deleted>>
         /\ UNCHANGED gen_vars
    ELSE /\ next_oid <= MaxConvs
         /\ store_conversation(sit, conversation_of(sit, generate_debate(sit)))
         /\ clock' \in {clock, clock + 1}
         /\ UNCHANGED deleted
         /\ UNCHANGED gen_vars

\* database.get_documents: at most limit documents, in insertion order
RECURSIVE get_documents_from(_, _)
get_documents_from(oid, limit) ==
    IF oid >= next_oid \/ limit = 0 THEN <<>>
    ELSE IF oid \in DOMAIN store
         THEN <<store[oid]>> \o get_documents_from(oid + 1, limit - 1)
         ELSE get_documents_from(oid + 1, limit)

get_documents(limit) == get_documents_from(1, limit)

\* sorted(docs, key=created_at, reverse=True): stable
RECURSIVE sorted_newest_first(_)
sorted_newest_first(docs) ==
    IF docs = <<>> THEN <<>>
    ELSE LET k == CHOOSE i \in 1..Len(docs) :
                    \A j \in 1..Len(docs) :
                        \/ docs[j].created_at < docs[i].created_at
                        \/ (docs[j].created_at = docs[i].created_at /\ i <= j)
         IN  <<docs[k]>> \o sorted_newest_first(
                 SubSeq(docs, 1, k - 1) \o SubSeq(docs, k + 1, Len(docs)))

list_item(d) ==
    [id |-> str_oid(d._id), situation |-> d.situation,
     final_decision |-> d.final_decision,
     created_at |-> isoformat(d.created_at), tags |-> d.tags]

list_conversations(limit) ==
    /\ LET docs == sorted_newest_first(get_documents(limit))
       IN  response' = [op |-> "list", req |-> limit, status |-> 200,
                        body |-> [items |-> [i \in 1..Len(docs) |-> list_item(docs[i])]]]
    /\ UNCHANGED <<store, next_oid, clock, created, deleted>>
    /\ UNCHANGED gen_vars

serialize_doc(doc) ==
    [id |-> str_oid(doc._id), situation |-> doc.situation,
     messages |-> doc.messages, final_decision |-> doc.final_decision,
     tags |-> doc.tags, created_at |-> isoformat(doc.created_at),
     updated_at |-> isoformat(doc.updated_at)]

\* mutant: a malformed id is answered like a missing one
get_response_malformed_404(cid) ==
    IF ~cid.wf \/ cid.hex \notin DOMAIN store
    THEN [op |-> "get", req |-> cid, status |-> 404,
          body |-> [detail |-> "Conversation not found"]]
    ELSE [op |-> "get", req |-> cid, status |-> 200,
          body |-> serialize_doc(store[cid.hex])]

\* the answer of GET /api/conversations/{conversation_id}
get_response(cid) ==
    IF ~cid.wf
    THEN [op |-> "get", req |-> cid, status |-> 400,
          body |-> [detail |-> "Invalid conversation id"]]
    ELSE IF cid.hex \notin DOMAIN store
    THEN [op |-> "get", req |-> cid, status |-> 404,
          body |-> [detail |-> "Conversation not found"]]
    ELSE [op |-> "get", req |-> cid, status |-> 200,
          body |-> serialize_doc(store[cid.hex])]

get_conversation(cid) ==
    /\ response' = get_response(cid)
    /\ UNCHANGED <<store, next_oid, clock, created, deleted>>
    /\ UNCHANGED gen_vars

\* mutant: nothing is removed
delete_one_noop(oid) == store

\* mutant: the filter is dropped, every document is removed
delete_one_everything(oid) == [o \in {} |-> store[o]]

\* db["conversation"].delete_one({"_id": oid}): the collection afterwards
delete_one(oid) == [o \in DOMAIN store \ {oid} |-> store[o]]

delete_conversation(cid) ==
    /\ IF ~cid.wf
       THEN /\ response' = [op |-> "delete", req |-> cid, status |-> 400,
                            body |-> [detail |-> "Invalid conversation id"]]
            /\ UNCHANGED <<store, deleted>>
       ELSE IF cid.hex \notin DOMAIN store
       THEN /\ store' = delete_one(cid.hex)
            /\ response' = [op |-> "delete", req |-> cid, status |-> 404,
                            body |-> [detail |-> "Conversation not found"]]
            /\ UNCHANGED deleted
       ELSE /\ store' = delete_one(cid.hex)
            /\ response' = [op |-> "delete", req |-> cid, status |-> 200,
                            body |-> [status |-> "deleted", id |-> cid]]
            /\ deleted' = deleted \cup {cid.hex}
    /\ UNCHANGED <<next_oid, clock, created>>
    /\ UNCHANGED gen_vars

CreateDebate == \E sit \in ApiSituations : create_debate(sit)
ListConversations == \E limit \in {1, DefaultLimit} : list_conversations(limit)
GetConversation == \E cid \in ConversationIds : get_conversation(cid)
DeleteConversation == \E cid \in ConversationIds : delete_conversation(cid)

Next == CreateDebate \/ ListConversations \/ GetConversation \/ DeleteConversation

Init ==
    /\ situation = <<>>
    /\ gpc = "start"
    /\ tags_out = <<>>
    /\ phrases_out = <<>>
    /\ debate_out = NoDebate
    /\ store = <<>>
    /\ next_oid = 1
    /\ clock = 0
    /\ response = NoResponse
    /\ created = <<>>
    /\ deleted = {}

Spec == Init /\ [][Next]_vars

\* the generator harness: the service is idle, the input is any situation
GenInit ==
    /\ situation \in Situations
    /\ gpc = "start"
    /\ tags_out = <<>>
    /\ phrases_out = <<>>
    /\ debate_out = NoDebate
    /\ store = <<>>
    /\ next_oid = 1
    /\ clock = 0
    /\ response = NoResponse
    /\ created = <<>>
    /\ deleted = {}

SpecGen == GenInit /\ [][GenNext]_vars

----------------------------------------------------------------------------
(* Properties of the generator, checked under SpecGen *)

\* the points generate_debate builds for the (already passed) situation
PointsOf(sit) ==
    LET s == strip(sit)
    IN  IF is_exam(s, extract_tags(s))
        THEN exam_points(s, key_phrases(s))
        ELSE generic_points(key_phrases(s))

\* C1: the transcript is one user message holding the trimmed situation,
\* then an opener pair, one (emotional, logical) pair for every generated
\* point, a self-critique pair, and last one summary message whose content
\* is the returned final_decision.
C1_TranscriptShape ==
    gpc = "done" =>
        LET m   == debate_out.messages
            n   == Len(m)
            pts == PointsOf(situation)
            k   == Len(pts.emo)
        IN  /\ Len(pts.log) = k
            /\ n = 2 * k + 6
            /\ m[1].role = "user"
            /\ m[1].content = Fmt("", strip(situation), "")
            /\ \A i \in 1..(k + 2) :
                  m[2 * i].role = "emotional" /\ m[2 * i + 1].role = "logical"
            /\ \A i \in 1..k :
                  /\ m[2 * i + 2].content = pts.emo[i]
                  /\ m[2 * i + 3].content = pts.log[i]
            /\ m[n].role = "summary"
            /\ m[n].content = debate_out.final_decision
            /\ Cardinality({i \in 1..n : m[i].role = "user"}) = 1
            /\ Cardinality({i \in 1..n : m[i].role = "summary"}) = 1

C1_Witness ==
    /\ gpc = "done"
    /\ strip(situation) # situation
    /\ Len(key_phrases(situation)) >= 2
    /\ Len(debate_out.messages) >= 12

\* C2: in both branches the turn of the i-th message (counted from 0) is i.
C2_TurnsAreIndexes ==
    gpc = "done" =>
        \A i \in 1..Len(debate_out.messages) :
            debate_out.messages[i].turn = i - 1

C2_Witness ==
    /\ gpc = "done"
    /\ is_exam(strip(situation), extract_tags(strip(situation)))
    /\ Len(debate_out.messages) >= 14
    /\ debate_out.messages[14].turn = 13

\* C7: in the generic branch the action of final_decision follows the
\* precedence health > relationships > career > finance > default, and no
\* other tag has a say.
C7_ActionPrecedence ==
    (gpc = "done" /\ ~is_exam(strip(situation), debate_out.tags)) =>
        LET has(tag) == \E i \in 1..Len(debate_out.tags) : debate_out.tags[i] = tag
            action == IF has("health") THEN HealthAction
                      ELSE IF has("relationships") THEN RelationshipsAction
                      ELSE IF has("career") THEN CareerAction
                      ELSE IF has("finance") THEN FinanceAction
                      ELSE DefaultAction
        IN  debate_out.final_decision = Text(DecisionPrefix \o action)

C7_Witness ==
    /\ gpc = "done"
    /\ ~is_exam(strip(situation), debate_out.tags)
    /\ in_list("finance", debate_out.tags)
    /\ in_list("career", debate_out.tags)
    /\ in_list("health", debate_out.tags)
    /\ debate_out.final_decision = Text(DecisionPrefix \o HealthAction)

\* C8: a situation whose lower-cased text holds "cricket" and one of "exam",
\* "test", "math" gets the exam openers, the two fixed exam pairs, then the
\* cricket reward pair, then only phrase pairs, the exam self-critique pair
\* and the fixed exam action, whatever its other tags.
C8_ExamCricket ==
    (/\ gpc = "done"
     /\ contains(lower(situation), <<"c","r","i","c","k","e","t">>)
     /\ \/ contains(lower(situation), <<"e","x","a","m">>)
        \/ contains(lower(situation), <<"t","e","s","t">>)
        \/ contains(lower(situation), <<"m","a","t","h">>)) =>
        LET m  == debate_out.messages
            n  == Len(m)
            ph == key_phrases(situation)
        IN  /\ n = 12 + 2 * Len(ph)
            /\ m[2].content = ExamEmoOpen /\ m[3].content = ExamLogicOpen
            /\ m[4].content = ExamEmoFixed[1] /\ m[5].content = ExamLogFixed[1]
            /\ m[6].content = ExamEmoFixed[2] /\ m[7].content = ExamLogFixed[2]
            /\ m[8].role = "emotional" /\ m[8].content = CricketEmo
            /\ m[9].role = "logical" /\ m[9].content = CricketLog
            /\ \A i \in 1..Len(ph) :
                  /\ m[8 + 2 * i].content = ExamEmoPhrase(ph[i])
                  /\ m[9 + 2 * i].content = ExamLogPhrase(ph[i])
            /\ m[n - 2].content = ExamEmoSelf /\ m[n - 1].content = ExamLogSelf
            /\ debate_out.final_decision = Text(DecisionPrefix \o ExamAction)

C8_Witness ==
    /\ gpc = "done"
    /\ contains(lower(situation), <<"c","r","i","c","k","e","t">>)
    /\ contains(situation, <<"E","x","a","m">>)
    /\ in_list("health", debate_out.tags)
    /\ debate_out.messages[8].content = CricketEmo
    /\ Len(debate_out.messages) >= 14

\* C9: extract_tags returns a non-empty, duplicate-free list in table order;
\* it is ["general"] exactly when no keyword of any topic occurs in the
\* lower-cased situation, and "general" never comes with another tag.
C9_Tags ==
    gpc # "start" =>
        LET s       == lower(situation)
            order   == <<"career", "finance", "relationships", "health",
                         "education", "relocation", "purchase", "hobby">>
            matched == {i \in 1..Len(keywords) :
                          \E j \in 1..Len(keywords[i].kws) :
                              contains(s, keywords[i].kws[j])}
            pos(tag) == CHOOSE i \in 1..Len(order) : order[i] = tag
            n       == Len(tags_out)
        IN  /\ n >= 1
            /\ \A i, j \in 1..n : i # j => tags_out[i] # tags_out[j]
            /\ (tags_out = <<"general">>) <=> (matched = {})
            /\ (\E i \in 1..n : tags_out[i] = "general") => n = 1
            /\ matched # {} =>
                  /\ {tags_out[i] : i \in 1..n} = {order[i] : i \in matched}
                  /\ \A i, j \in 1..n : i < j => pos(tags_out[i]) < pos(tags_out[j])

C9_Witness ==
    /\ gpc = "tags"
    /\ Len(tags_out) >= 3
    /\ lower(situation) # situation

\* C10: key_phrases returns the first 4, in order, of the trimmed chunks
\* (split on ".", "?", "!") whose length is in [4,140]; when no chunk
\* qualifies it returns the whole trimmed situation if that is non-empty
\* and nothing if it is empty.
C10_Phrases ==
    gpc \in {"phrases", "done"} =>
        LET s      == strip(situation)
            raw    == split([i \in 1..Len(s) |->
                               IF s[i] \in {"?", "!"} THEN "." ELSE s[i]], ".")
            chunks == [i \in 1..Len(raw) |-> strip(raw[i])]
            fits(c) == 4 <= Len(c) /\ Len(c) <= 140
            good   == SelectSeq(chunks, fits)
        IN  /\ Len(phrases_out) <= 4
            /\ good # <<>> =>
                  /\ Len(phrases_out) = (IF Len(good) < 4 THEN Len(good) ELSE 4)
                  /\ \A i \in 1..Len(phrases_out) : phrases_out[i] = good[i]
            /\ (good = <<>> /\ s # <<>>) => phrases_out = <<s>>
            /\ s = <<>> => phrases_out = <<>>

C10_Witness ==
    /\ gpc = "phrases"
    /\ Len(phrases_out) = 4
    /\ strip(situation) # situation
    /\ Len(split(replace(replace(strip(situation), "?", "."), "!", "."), ".")) > 5

----------------------------------------------------------------------------
(* Properties of the endpoints, checked under Spec *)

\* C3: a POST whose situation is empty or only whitespace is answered 400
\* and leaves the store, the id counter and the created records unchanged.
C3_BlankRejected ==
    [][(response'.op = "create" /\ strip(response'.req) = <<>>) =>
          /\ response'.status = 400
          /\ store' = store
          /\ next_oid' = next_oid
          /\ created' = created]_vars

C3_Witness ==
    /\ response.op = "create"
    /\ response.req # <<>>
    /\ strip(response.req) = <<>>
    /\ response.status = 400
    /\ store # <<>>

\* C4: once a DELETE of an id has succeeded, every later GET and every
\* later DELETE of that id is answered 404, and the id is not stored again.
C4_DeletedStaysGone ==
    [][/\ (/\ response'.op \in {"get", "delete"}
           /\ response'.req.wf
           /\ response'.req.hex \in deleted) => response'.status = 404
       /\ \A oid \in deleted : oid \notin DOMAIN store']_vars

C4_Witness ==
    /\ response.op = "get"
    /\ response.req.wf
    /\ response.req.hex \in deleted
    /\ response.status = 404
    /\ store # <<>>

\* C5 as stated: GET and DELETE answer not-found (404) for a missing id
\* and for a malformed id alike, leaving the store unchanged.
C5_Original ==
    [][(/\ response'.op \in {"get", "delete"}
        /\ (~response'.req.wf \/ response'.req.hex \notin DOMAIN store)) =>
          /\ response'.status = 404
          /\ store' = store]_vars

\* C5 (amended): GET and DELETE answer 404 "Conversation not found" for a
\* well-formed id that matches nothing and 400 "Invalid conversation id"
\* for a malformed id; in both cases the store is unchanged.
C5_NotFoundOrInvalid ==
    [][(/\ response'.op \in {"get", "delete"}
        /\ (~response'.req.wf \/ response'.req.hex \notin DOMAIN store)) =>
          /\ response'.status = (IF response'.req.wf THEN 404 ELSE 400)
          /\ response'.body.detail = (IF response'.req.wf
                                      THEN "Conversation not found"
                                      ELSE "Invalid conversation id")
          /\ store' = store]_vars

C5_Witness ==
    /\ response.op = "get"
    /\ ~response.req.wf
    /\ response.status = 400
    /\ store # <<>>

\* C6: from its creation until its deletion a conversation is stored with
\* the situation, messages, final_decision and tags its POST answered with,
\* and a GET of its id answers 200 with exactly these.
C6_RetrievableImmutable ==
    /\ \A oid \in DOMAIN created \ deleted :
          /\ oid \in DOMAIN store
          /\ created[oid].conversation_id = str_oid(oid)
          /\ store[oid].situation = created[oid].situation
          /\ store[oid].messages = created[oid].messages
          /\ store[oid].final_decision = created[oid].final_decision
          /\ store[oid].tags = created[oid].tags
    /\ (/\ response.op = "get"
        /\ response.req.wf
        /\ response.req.hex \in DOMAIN created \ deleted) =>
          /\ response.status = 200
          /\ response.body.id = created[response.req.hex].conversation_id
          /\ response.body.situation = created[response.req.hex].situation
          /\ response.body.messages = created[response.req.hex].messages
          /\ response.body.final_decision = created[response.req.hex].final_decision
          /\ response.body.tags = created[response.req.hex].tags

C6_Witness ==
    /\ response.op = "get"
    /\ response.status = 200
    /\ response.req.hex = 1
    /\ 2 \in deleted
    /\ Len(response.body.messages) >= 10

====
